---- MODULE Spec2Model ----
(***************************************************************************)
(* A model of tranclator (src/src/main.rs): the substitution engine        *)
(* `translate`, and the driver `main` / `repl` around it.                  *)
(*                                                                         *)
(* A string is a sequence of characters; a character is a one-element      *)
(* token.  Rust strings are UTF-8 and every offset the code handles is a   *)
(* BYTE offset, so each character carries its encoded length (len_utf8)    *)
(* and slicing is checked against character boundaries as Rust does.       *)
(***************************************************************************)
EXTENDS Naturals, Sequences, FiniteSets, TLC

(***************************************************************************)
(* Characters and their case mappings (std: char::to_lowercase /           *)
(* char::to_uppercase).  KelvinSign is U+212A KELVIN SIGN: three bytes in  *)
(* UTF-8, lowercase "k" (one byte), and its own uppercase.                 *)
(***************************************************************************)
AsciiLower == <<"a", "d", "e", "h", "k", "l", "m", "n", "o", "r", "u", "w">>

AsciiUpper == <<"A", "D", "E", "H", "K", "L", "M", "N", "O", "R", "U", "W">>

KelvinSign == "U+212A"

Whitespace == {" ", "\n"}

InSeq(c, s) == \E i \in 1..Len(s) : s[i] = c

IndexOf(c, s) == CHOOSE i \in 1..Len(s) : s[i] = c

char_to_lowercase(c) ==
    IF InSeq(c, AsciiUpper) THEN <<AsciiLower[IndexOf(c, AsciiUpper)]>>
    ELSE IF c = KelvinSign THEN <<"k">>
    ELSE <<c>>

char_to_uppercase(c) ==
    IF InSeq(c, AsciiLower) THEN <<AsciiUpper[IndexOf(c, AsciiLower)]>>
    ELSE <<c>>

len_utf8(c) == IF c = KelvinSign THEN 3 ELSE 1

RECURSIVE to_lowercase(_)
to_lowercase(s) ==
    IF s = <<>> THEN <<>> ELSE char_to_lowercase(Head(s)) \o to_lowercase(Tail(s))

RECURSIVE to_uppercase(_)
to_uppercase(s) ==
    IF s = <<>> THEN <<>> ELSE char_to_uppercase(Head(s)) \o to_uppercase(Tail(s))

\* str::len: the length in bytes.
RECURSIVE str_len(_)
str_len(s) == IF s = <<>> THEN 0 ELSE len_utf8(Head(s)) + str_len(Tail(s))

RECURSIVE trim_start(_)
trim_start(s) ==
    IF s # <<>> /\ Head(s) \in Whitespace THEN trim_start(Tail(s)) ELSE s

RECURSIVE trim_end(_)
trim_end(s) ==
    IF s # <<>> /\ s[Len(s)] \in Whitespace THEN trim_end(SubSeq(s, 1, Len(s) - 1)) ELSE s

trim(s) == trim_end(trim_start(s))

\* str::is_char_boundary, and the number of characters before byte offset b.
is_char_boundary(s, b) == \E n \in 0..Len(s) : str_len(SubSeq(s, 1, n)) = b

char_index(s, b) == CHOOSE n \in 0..Len(s) : str_len(SubSeq(s, 1, n)) = b

(***************************************************************************)
(* str::match_indices: the non-overlapping matches of needle in hay, left  *)
(* to right; an empty needle matches at every character boundary.         *)
(* match_positions counts characters, match_indices bytes (as Rust does).  *)
(***************************************************************************)
RECURSIVE find_from(_, _, _)
find_from(hay, needle, i) ==
    IF i + Len(needle) > Len(hay) THEN <<>>
    ELSE IF SubSeq(hay, i + 1, i + Len(needle)) = needle
         THEN <<i>> \o find_from(hay, needle, i + Len(needle))
         ELSE find_from(hay, needle, i + 1)

\* A slip: only the first match (str::replacen(.., 1), str::find).
first_match_only(hay, needle) ==
    LET found == IF needle = <<>> THEN <<0>> ELSE find_from(hay, needle, 0)
    IN  IF found = <<>> THEN <<>> ELSE <<found[1]>>

match_positions(hay, needle) ==
    IF needle = <<>> THEN [n \in 1..(Len(hay) + 1) |-> n - 1]
    ELSE find_from(hay, needle, 0)

match_indices(hay, needle) ==
    LET mp == match_positions(hay, needle)
    IN  [n \in 1..Len(mp) |-> str_len(SubSeq(hay, 1, mp[n]))]

(***************************************************************************)
(* str::replace: copy the text between the matches and `to` for each       *)
(* match.  assemble is also applied to the bookkeeping sequences that run  *)
(* parallel to the text.                                                   *)
(***************************************************************************)
RECURSIVE assemble(_, _, _, _, _)
assemble(s, ms, n, to, last_end) ==
    IF ms = <<>> THEN SubSeq(s, last_end + 1, Len(s))
    ELSE SubSeq(s, last_end + 1, Head(ms)) \o to
             \o assemble(s, Tail(ms), n, to, Head(ms) + n)

replace(s, from, to) == assemble(s, match_positions(s, from), Len(from), to, 0)

(***************************************************************************)
(* The body of translate's loops, as operators (main.rs 157-202).          *)
(***************************************************************************)
\* A slip: the word is searched as written, not lowercased.
lower_entry_word_as_written(t, e) == replace(t, e.word, to_lowercase(e.translation))

\* main.rs 161: text.replace(&word.to_lowercase(), &translation.to_lowercase())
lower_entry(t, e) == replace(t, to_lowercase(e.word), to_lowercase(e.translation))

\* A slip: the translation is inserted as written, not uppercased.
upper_entry_translation_as_written(t, e) == replace(t, to_uppercase(e.word), e.translation)

\* main.rs 167: text.replace(&word.to_uppercase(), &translation.to_uppercase())
upper_entry(t, e) == replace(t, to_uppercase(e.word), to_uppercase(e.translation))

\* main.rs 172-178: byte offsets of the matches in the lowercased copy.
preserve_matches(t, e) == match_indices(to_lowercase(t), to_lowercase(e.word))

\* main.rs 181: end_pos = pos + word.len()
end_pos_of(pos, e) == pos + str_len(e.word)

\* main.rs 182: &text[pos..end_pos] panics unless both offsets are character
\* boundaries of text (which includes lying within it).
slice_ok(t, pos, end_pos) ==
    /\ pos <= end_pos
    /\ is_char_boundary(t, pos)
    /\ is_char_boundary(t, end_pos)

original_segment(t, pos, end_pos) ==
    SubSeq(t, char_index(t, pos) + 1, char_index(t, end_pos))

\* main.rs 191-195: the first character uppercased, the rest chained as is.
capitalize_first(translation) ==
    IF translation = <<>> THEN <<>>
    ELSE char_to_uppercase(Head(translation)) \o Tail(translation)

\* main.rs 184-196
replacement_for(t, seg, translation) ==
    IF to_lowercase(seg) = seg THEN to_lowercase(translation)
    ELSE IF to_uppercase(seg) = seg /\ to_uppercase(t) = t THEN to_uppercase(translation)
    ELSE capitalize_first(translation)

\* main.rs 198: text.replace_range(pos..end_pos, &replacement)
replace_range(t, pos, end_pos, rep) ==
    SubSeq(t, 1, char_index(t, pos)) \o rep
        \o SubSeq(t, char_index(t, end_pos) + 1, Len(t))

(***************************************************************************)
(* translate as a function of its arguments: what a caller receives.  A    *)
(* panic (a failed slice) is the result [ok |-> FALSE].  Each intermediate *)
(* text is bound once, as the single element of a set, before it is used.  *)
(***************************************************************************)
RECURSIVE preserve_splices(_, _, _, _)
preserve_splices(t, e, ms, n) ==
    IF n = 0 THEN [ok |-> TRUE, text |-> t]
    ELSE LET pos == ms[n]
             end_pos == end_pos_of(pos, e)
         IN  IF ~slice_ok(t, pos, end_pos) THEN [ok |-> FALSE, text |-> t]
             ELSE LET seg == original_segment(t, pos, end_pos)
                      rep == replacement_for(t, seg, e.translation)
                  IN  CHOOSE r \in {preserve_splices(u, e, ms, n - 1) :
                                       u \in {replace_range(t, pos, end_pos, rep)}} : TRUE

preserve_entry(t, e) ==
    CHOOSE r \in {preserve_splices(t, e, ms, Len(ms)) : ms \in {preserve_matches(t, e)}} : TRUE

apply_entry(t, lower_mode, e) ==
    IF lower_mode = "Lower" THEN [ok |-> TRUE, text |-> lower_entry(t, e)]
    ELSE IF lower_mode = "Upper" THEN [ok |-> TRUE, text |-> upper_entry(t, e)]
    ELSE preserve_entry(t, e)

RECURSIVE translate_loop(_, _, _, _)
translate_loop(t, lower_mode, dict, i) ==
    IF i > Len(dict) THEN [ok |-> TRUE, text |-> t]
    ELSE CHOOSE r \in {IF s.ok THEN translate_loop(s.text, lower_mode, dict, i + 1) ELSE s :
                          s \in {apply_entry(t, lower_mode, dict[i])}} : TRUE

\* main.rs 154-159, 165: trim, then normalise the case by mode.
normalise(input_text, lower_mode) ==
    IF lower_mode = "Lower" THEN to_lowercase(trim(input_text))
    ELSE IF lower_mode = "Upper" THEN to_uppercase(trim(input_text))
    ELSE trim(input_text)

translate(input_text, profile) ==
    CHOOSE r \in {translate_loop(t, profile.lower_mode, profile.dict, 1) :
                     t \in {normalise(input_text, profile.lower_mode)}} : TRUE

(***************************************************************************)
(* State.                                                                  *)
(*   language, input   translate's arguments                               *)
(*   text              its local `text`                                    *)
(*   idx               dictionary entries already applied                  *)
(*   matches, k        the Vec `matches` of the current entry and how many *)
(*                     of them the reversed iterator still has to yield    *)
(*   pcT               where translate is: start, loop, splice, done,      *)
(*                     panic                                               *)
(* History variables (not program state):                                  *)
(*   prov   per character of text, the entry that inserted it (0: input)   *)
(*   src    per character of text, its position in the text the current    *)
(*          entry started from (0: inserted by the current entry)          *)
(*   seg, rep, ctx   original_segment, replacement and the whole text of   *)
(*                   the latest splice, as they were when it classified    *)
(***************************************************************************)
VARIABLES language, input, text, idx, matches, k, pcT, prov, src, seg, rep, ctx

engineVars == <<language, input, text, idx, matches, k, pcT, prov, src, seg, rep, ctx>>

(***************************************************************************)
(* The driver's state (main and repl, main.rs 54-151).                     *)
(*   args            the parsed command line (Cli)                         *)
(*   fileState       what reading and parsing the configuration file gives *)
(*   config          the parsed Config                                     *)
(*   clipboardState  the clipboard backend: ok, unavailable (Clipboard::new*)
(*                   fails) or set_fails (set_text fails)                  *)
(*   stdin           the lines standard input still holds                  *)
(*   pc              where the process is; exit: running, ok (status 0),   *)
(*                   err (main returned Err), panic                        *)
(*   cb              whether main holds a Clipboard                        *)
(*   selected, lang  the language name chosen, the profile found           *)
(*   repl_input      repl's `input`                                        *)
(*   translated      the latest result of translate                        *)
(*   stdout, copied  what was printed, what was set as clipboard text      *)
(* History variables: eof (a read returned no data), fed (the lines given  *)
(* to translate).                                                          *)
(***************************************************************************)
VARIABLES args, fileState, config, clipboardState, stdin, pc, exit, cb, selected,
          lang, repl_input, translated, stdout, copied, eof, fed

driverVars == <<args, fileState, config, clipboardState, stdin, pc, exit, cb, selected,
                lang, repl_input, translated, stdout, copied, eof, fed>>

vars == <<engineVars, driverVars>>

CapitalizationMode == {"Lower", "Preserve", "Upper"}

(***************************************************************************)
(* Inputs.                                                                 *)
(***************************************************************************)
MaxTextLen == 3

MaxEntries == 2

Sigma == {"a", "A", "k", KelvinSign, "1", " "}

Texts == UNION {[1..n -> Sigma] : n \in 0..MaxTextLen}

\* Dictionary entries a configuration can hold: a removal, a mixed-case
\* translation under an uppercase key, an empty key, a key without case, and a
\* two-letter key whose translation contains other keys.
Pool ==
    << [word |-> <<"k">>, translation |-> <<>>],
       [word |-> <<"A">>, translation |-> <<"a", "a", "A">>],
       [word |-> <<>>, translation |-> <<"k">>],
       [word |-> <<"1">>, translation |-> <<"a", "A">>],
       [word |-> <<"a", "A">>, translation |-> <<"1", "k">>] >>

\* IndexMap: ordered, keys unique.
Dicts ==
    LET picks == UNION {[1..n -> 1..Len(Pool)] : n \in 0..MaxEntries}
        inj(f) == \A i, j \in DOMAIN f : i # j => f[i] # f[j]
    IN  {[i \in DOMAIN f |-> Pool[f[i]]] : f \in {g \in picks : inj(g)}}

\* tests::test_translate (main.rs 211-226) and the examples of its kind.
TestDict ==
    << [word |-> <<"h", "e", "l", "l", "o">>, translation |-> <<"h", "o", "l", "a">>],
       [word |-> <<"w", "o", "r", "l", "d">>, translation |-> <<"m", "u", "n", "d", "o">>] >>

TestInputs ==
    { <<"h", "e", "l", "l", "o", " ", "w", "o", "r", "l", "d">>,
      <<"H", "e", "l", "l", "o", " ", "W", "o", "r", "L", "d">>,
      <<"H", "e", "l", "l", "o", " ", "w", "o", "r", "l", "d">>,
      <<"H", "E", "L", "L", "O", " ", "W", "O", "R", "L", "D">> }

None == [some |-> FALSE, v |-> <<>>]

Some(x) == [some |-> TRUE, v |-> x]

NoName == [some |-> FALSE, v |-> ""]

NoConfig == [default_language |-> NoName, quit_keywords |-> {}, languages |-> <<>>]

NoArgs == [text |-> None, repl |-> FALSE, language |-> NoName, no_clipboard |-> TRUE]

NoLanguage == [name |-> "", lower_mode |-> "Lower", dict |-> <<>>]

\* The driver is not running: translate is called on its own, as the test does.
DriverIdle ==
    /\ args = NoArgs
    /\ fileState = "Ok"
    /\ config = NoConfig
    /\ clipboardState = "ok"
    /\ stdin = <<>>
    /\ pc = "idle"
    /\ exit = "running"
    /\ cb = FALSE
    /\ selected = NoName
    /\ lang = NoLanguage
    /\ repl_input = <<>>
    /\ translated = <<>>
    /\ stdout = {}
    /\ copied = {}
    /\ eof = FALSE
    /\ fed = {}

Zeros(n) == [i \in 1..n |-> 0]

Fill(n, v) == [i \in 1..n |-> v]

Identity(n) == [i \in 1..n |-> i]

Init ==
    /\ \/ /\ input \in Texts
          /\ \E m \in CapitalizationMode, d \in Dicts :
                 language = [name |-> "x", lower_mode |-> m, dict |-> d]
       \/ /\ input \in TestInputs
          /\ \E m \in CapitalizationMode :
                 language = [name |-> "test", lower_mode |-> m, dict |-> TestDict]
    /\ text = <<>>
    /\ idx = 0
    /\ matches = <<>>
    /\ k = 0
    /\ pcT = "start"
    /\ prov = <<>>
    /\ src = <<>>
    /\ seg = <<>>
    /\ rep = <<>>
    /\ ctx = <<>>
    /\ DriverIdle

(***************************************************************************)
(* translate, step by step (main.rs 153-205).                              *)
(***************************************************************************)
\* main.rs 154-159, 165
Begin ==
    /\ pcT = "start"
    /\ UNCHANGED driverVars
    /\ text' = normalise(input, language.lower_mode)
    /\ prov' = Zeros(Len(text'))
    /\ src' = Identity(Len(text'))
    /\ idx' = 0
    /\ pcT' = "loop"
    /\ UNCHANGED <<language, input, matches, k, seg, rep, ctx>>

\* main.rs 160-162: one iteration of the Lower loop.
LowerStep ==
    /\ pcT = "loop"
    /\ UNCHANGED driverVars
    /\ language.lower_mode = "Lower"
    /\ idx < Len(language.dict)
    /\ LET e == language.dict[idx + 1]
           ms == match_positions(text, to_lowercase(e.word))
           n == Len(to_lowercase(e.word))
           m == Len(to_lowercase(e.translation))
       IN  /\ text' = lower_entry(text, e)
           /\ prov' = assemble(prov, ms, n, Fill(m, idx + 1), 0)
           /\ src' = assemble(Identity(Len(text)), ms, n, Zeros(m), 0)
    /\ idx' = idx + 1
    /\ UNCHANGED <<language, input, matches, k, pcT, seg, rep, ctx>>

\* main.rs 166-168: one iteration of the Upper loop.
UpperStep ==
    /\ pcT = "loop"
    /\ UNCHANGED driverVars
    /\ language.lower_mode = "Upper"
    /\ idx < Len(language.dict)
    /\ LET e == language.dict[idx + 1]
           ms == match_positions(text, to_uppercase(e.word))
           n == Len(to_uppercase(e.word))
           m == Len(to_uppercase(e.translation))
       IN  /\ text' = upper_entry(text, e)
           /\ prov' = assemble(prov, ms, n, Fill(m, idx + 1), 0)
           /\ src' = assemble(Identity(Len(text)), ms, n, Zeros(m), 0)
    /\ idx' = idx + 1
    /\ UNCHANGED <<language, input, matches, k, pcT, seg, rep, ctx>>

\* main.rs 171-178: collect the matches of the next entry.
PreserveScan ==
    /\ pcT = "loop"
    /\ UNCHANGED driverVars
    /\ language.lower_mode = "Preserve"
    /\ idx < Len(language.dict)
    /\ matches' = preserve_matches(text, language.dict[idx + 1])
    /\ k' = Len(matches')
    /\ src' = Identity(Len(text))
    /\ pcT' = "splice"
    /\ UNCHANGED <<language, input, text, idx, prov, seg, rep, ctx>>

\* main.rs 180-199: one iteration of `for &pos in matches.iter().rev()`.
PreserveSplice ==
    /\ pcT = "splice"
    /\ UNCHANGED driverVars
    /\ k > 0
    /\ LET e == language.dict[idx + 1]
           pos == matches[k]
           end_pos == end_pos_of(pos, e)
       IN  IF ~slice_ok(text, pos, end_pos)
           THEN /\ pcT' = "panic"
                /\ UNCHANGED <<text, k, prov, src, seg, rep, ctx>>
           ELSE LET s == original_segment(text, pos, end_pos)
                    r == replacement_for(text, s, e.translation)
                    ci == char_index(text, pos)
                    cj == char_index(text, end_pos)
                IN  /\ text' = replace_range(text, pos, end_pos, r)
                    /\ prov' = SubSeq(prov, 1, ci) \o Fill(Len(r), idx + 1)
                                   \o SubSeq(prov, cj + 1, Len(prov))
                    /\ src' = SubSeq(src, 1, ci) \o Zeros(Len(r))
                                  \o SubSeq(src, cj + 1, Len(src))
                    /\ seg' = s
                    /\ rep' = r
                    /\ ctx' = text
                    /\ k' = k - 1
                    /\ pcT' = "splice"
    /\ UNCHANGED <<language, input, idx, matches>>

\* main.rs 199-200: the inner loop is exhausted; on to the next entry.
PreserveNext ==
    /\ pcT = "splice"
    /\ UNCHANGED driverVars
    /\ k = 0
    /\ idx' = idx + 1
    /\ pcT' = "loop"
    /\ UNCHANGED <<language, input, text, matches, k, prov, src, seg, rep, ctx>>

\* main.rs 204
Return ==
    /\ pcT = "loop"
    /\ UNCHANGED driverVars
    /\ idx = Len(language.dict)
    /\ pcT' = "done"
    /\ UNCHANGED <<language, input, text, idx, matches, k, prov, src, seg, rep, ctx>>

Next ==
    \/ Begin
    \/ LowerStep
    \/ UpperStep
    \/ PreserveScan
    \/ PreserveSplice
    \/ PreserveNext
    \/ Return

Spec == Init /\ [][Next]_vars

\* The stepwise run and the function agree.
StepsAgree ==
    /\ pcT = "done" => translate(input, language) = [ok |-> TRUE, text |-> text]
    /\ pcT = "panic" => ~translate(input, language).ok

(***************************************************************************)
(* Vocabulary of the properties.                                           *)
(***************************************************************************)
is_uppercase(c) == char_to_lowercase(c) # <<c>>

is_lowercase(c) == char_to_uppercase(c) # <<c>>

NoUppercase(s) == \A i \in 1..Len(s) : ~is_uppercase(s[i])

NoLowercase(s) == \A i \in 1..Len(s) : ~is_lowercase(s[i])

HasCased(s) == \E i \in 1..Len(s) : is_uppercase(s[i]) \/ is_lowercase(s[i])

Range(f) == {f[i] : i \in DOMAIN f}

\* Every place (characters before it) where key occurs in hay, overlapping or not.
Occurrences(hay, key) ==
    {p \in 0..Len(hay) : p + Len(key) <= Len(hay) /\ SubSeq(hay, p + 1, p + Len(key)) = key}

\* The entry being applied, and what its search looks for and in what.
CurrentEntry == language.dict[idx + 1]

SearchKey(e) ==
    IF language.lower_mode = "Upper" THEN to_uppercase(e.word) ELSE to_lowercase(e.word)

SearchHay == IF language.lower_mode = "Preserve" THEN to_lowercase(text) ELSE text

\* A splice of the current entry has been made: seg, rep and ctx describe it.
Spliced == pcT = "splice" /\ k < Len(matches)

(***************************************************************************)
(* C1.  The reference of Lower mode, written from its description: scan    *)
(* the text from the left; where the word starts, emit the translation and *)
(* skip the word, else emit the character.                                 *)
(***************************************************************************)
RECURSIVE RefReplaceAll(_, _, _)
RefReplaceAll(s, w, t) ==
    IF w = <<>>
    THEN IF s = <<>> THEN t ELSE t \o <<Head(s)>> \o RefReplaceAll(Tail(s), w, t)
    ELSE IF Len(s) < Len(w) THEN s
    ELSE IF SubSeq(s, 1, Len(w)) = w
         THEN t \o RefReplaceAll(SubSeq(s, Len(w) + 1, Len(s)), w, t)
         ELSE <<Head(s)>> \o RefReplaceAll(Tail(s), w, t)

RECURSIVE RefLower(_, _, _)
RefLower(s, dict, n) ==
    IF n = 0 THEN s
    ELSE LET e == dict[n]
         IN  RefReplaceAll(RefLower(s, dict, n - 1), to_lowercase(e.word),
                           to_lowercase(e.translation))

HolaMundo == <<"h", "o", "l", "a", " ", "m", "u", "n", "d", "o">>

\* C1: in Lower mode the text after n entries is the reference applied to the
\* trimmed, lowercased input for the first n entries; so the result is that of
\* the reference, is the same for the input in any letter case, and is
\* "hola mundo" for the test dictionary on "hello world" and "Hello WorLd".
C1_LowerIsReference ==
    (language.lower_mode = "Lower" /\ pcT \in {"loop", "done"}) =>
        /\ text = RefLower(to_lowercase(trim(input)), language.dict, idx)
        /\ pcT = "done" =>
               /\ idx = Len(language.dict)
               /\ translate(to_lowercase(input), language) = [ok |-> TRUE, text |-> text]
               /\ translate(to_uppercase(input), language) = [ok |-> TRUE, text |-> text]
               /\ language.name = "test" => text = HolaMundo

\* A Lower run that is done, on an input with uppercase letters and blanks to
\* trim, in which both entries of a two-entry dictionary replaced something.
C1_Witness ==
    /\ language.lower_mode = "Lower"
    /\ pcT = "done"
    /\ Len(language.dict) = 2
    /\ ~NoUppercase(input)
    /\ trim(input) # input
    /\ \E i \in 1..Len(prov) : prov[i] = 1
    /\ \E i \in 1..Len(prov) : prov[i] = 2

(***************************************************************************)
(* C4.                                                                     *)
(***************************************************************************)
\* C4: the text of a Lower run holds no uppercase character and the text of an
\* Upper run no lowercase character, from the normalisation on and so in the
\* result.
C4_OutputCase ==
    pcT \in {"loop", "done"} =>
        /\ language.lower_mode = "Lower" => NoUppercase(text)
        /\ language.lower_mode = "Upper" => NoLowercase(text)

\* An Upper run that is done, whose input had lowercase letters and in which a
\* translation with lowercase letters was inserted.
C4_Witness ==
    /\ language.lower_mode = "Upper"
    /\ pcT = "done"
    /\ ~NoLowercase(input)
    /\ \E i \in 1..Len(prov) :
           prov[i] > 0 /\ ~NoLowercase(language.dict[prov[i]].translation)

(***************************************************************************)
(* C2, C9.  The casing of a Preserve replacement.                          *)
(***************************************************************************)
\* C2: after a Preserve splice of a non-empty match: a match with no uppercase
\* letter was replaced by a replacement with none; a match inside a text that
\* was all uppercase (letters, none of them lowercase) by a replacement with no
\* lowercase letter; a match with an uppercase letter inside a text with a
\* lowercase letter by the translation with its first character uppercased and
\* the rest as given.
C2_ReplacementCasing ==
    (Spliced /\ seg # <<>>) =>
        /\ NoUppercase(seg) => NoUppercase(rep)
        /\ (NoLowercase(ctx) /\ HasCased(ctx)) => NoLowercase(rep)
        /\ (~NoUppercase(seg) /\ ~NoLowercase(ctx)) =>
               rep = capitalize_first(CurrentEntry.translation)

\* C9: after a Preserve splice whose translation reads differently in its three
\* casings: the uppercased translation was inserted only if the match and the
\* trimmed input are all uppercase; and if the trimmed input is not all
\* uppercase, an all-uppercase match with a cased letter was replaced by the
\* title-cased translation.
C9_UppercaseNeedsUppercaseInput ==
    LET tr == CurrentEntry.translation
    IN  (/\ Spliced
         /\ to_uppercase(tr) # capitalize_first(tr)
         /\ to_uppercase(tr) # to_lowercase(tr)) =>
            /\ rep = to_uppercase(tr) => (NoLowercase(seg) /\ NoLowercase(trim(input)))
            /\ (~NoLowercase(trim(input)) /\ NoLowercase(seg) /\ HasCased(seg)) =>
                   rep = capitalize_first(tr)

(***************************************************************************)
(* C3.                                                                     *)
(***************************************************************************)
\* C3: translate never panics, and every splice it is about to make has its
\* range on character boundaries within the text, over a segment that still
\* matches the dictionary word case-insensitively.
C3_NeverFails ==
    /\ pcT # "panic"
    /\ (pcT = "splice" /\ k > 0) =>
           LET pos == matches[k]
               end_pos == end_pos_of(pos, CurrentEntry)
           IN  /\ slice_ok(text, pos, end_pos)
               /\ to_lowercase(original_segment(text, pos, end_pos))
                      = to_lowercase(CurrentEntry.word)

(***************************************************************************)
(* C10.                                                                    *)
(***************************************************************************)
\* C10: translate of an empty or whitespace-only input returns the empty string.
C10_EmptyInputUnchanged ==
    (pcT = "done" /\ trim(input) = <<>>) => text = <<>>

(***************************************************************************)
(* C8.  Cascading.                                                         *)
(***************************************************************************)
\* The characters p+1 .. p+n of the text were all inserted by earlier entries.
InsertedRun(p, n) == n > 0 /\ \A i \in (p + 1)..(p + n) : prov[i] >= 1

\* The searched text has an occurrence of the current key at p that lies in
\* inserted text.
InsertedOccurrences ==
    {p \in Occurrences(SearchHay, SearchKey(CurrentEntry)) :
        InsertedRun(p, Len(SearchKey(CurrentEntry)))}

\* C8 as stated: when an entry is about to be applied, every occurrence of its
\* word inside text inserted by earlier entries is one of the matches it
\* replaces.
C8_InsertedOccurrenceReplaced ==
    (pcT = "loop" /\ idx < Len(language.dict)) =>
        InsertedOccurrences \subseteq
            Range(match_positions(SearchHay, SearchKey(CurrentEntry)))

\* A run of n characters of the text that stood side by side, in this order,
\* in the text the latest entry started from.
SurvivingRun(p, n) ==
    /\ \A i \in (p + 1)..(p + n) : src[i] > 0
    /\ \A i \in (p + 1)..(p + n - 1) : src[i + 1] = src[i] + 1

\* Lower and Upper: the entry just applied left no occurrence of its key that
\* was there before it; with an empty key, no two neighbours and no end of the
\* text without an insertion.
NothingLeftUnreplaced ==
    LET key == SearchKey(language.dict[idx])
    IN  IF key # <<>>
        THEN \A p \in Occurrences(text, key) : ~SurvivingRun(p, Len(key))
        ELSE /\ text # <<>>
             /\ src[1] = 0
             /\ src[Len(src)] = 0
             /\ \A i \in 1..(Len(src) - 1) : ~(src[i] > 0 /\ src[i + 1] > 0)

\* Preserve: every occurrence of the key in the lowercased copy is covered by a
\* match the search found, starting at or before it.
EveryOccurrenceFound ==
    LET hay == to_lowercase(text)
        key == to_lowercase(CurrentEntry.word)
    IN  \A p \in Occurrences(hay, key) :
            LET b == str_len(SubSeq(hay, 1, p))
            IN  \E n \in 1..Len(matches) :
                    /\ matches[n] <= b
                    /\ b < matches[n] + str_len(key) \/ b = matches[n]

\* C8 (amended): entries are applied in insertion order, each to the text left
\* by the earlier ones and never to text of a later one.  In Lower and Upper
\* mode every occurrence of an entry's word in that text, inserted or not, is
\* replaced unless it overlaps a match further left, of which a part is then
\* replaced; in Preserve mode the search of the lowercased copy finds every
\* occurrence in the same sense.
C8_Cascade ==
    /\ \A i \in 1..Len(prov) :
           prov[i] <= (IF pcT \in {"splice", "panic"} THEN idx + 1 ELSE idx)
    /\ Len(prov) = Len(text)
    /\ (pcT = "loop" /\ idx >= 1 /\ language.lower_mode # "Preserve") => NothingLeftUnreplaced
    /\ (pcT = "splice" /\ k = Len(matches)) => EveryOccurrenceFound

\* A two-entry run in which the second entry replaced text though the input
\* held no occurrence of its non-empty word: text the first entry inserted.
C8_Witness ==
    /\ pcT = "done"
    /\ Len(language.dict) = 2
    /\ language.dict[2].word # <<>>
    /\ Occurrences(to_lowercase(trim(input)), to_lowercase(language.dict[2].word)) = {}
    /\ \E i \in 1..Len(prov) : prov[i] = 2

(***************************************************************************)
(* The driver: main (main.rs 54-117) and repl (main.rs 119-151).           *)
(***************************************************************************)
MaxLines == 2

\* The profiles of the configuration file: one per capitalization mode.
Languages ==
    << [name |-> "lo", lower_mode |-> "Lower", dict |-> <<Pool[2]>>],
       [name |-> "pre", lower_mode |-> "Preserve", dict |-> <<Pool[2]>>],
       [name |-> "up", lower_mode |-> "Upper", dict |-> <<Pool[2], Pool[1]>>] >>

LanguageArgs == {NoName, Some("pre"), Some("zz")}

DefaultLanguages == {NoName, Some("lo"), Some("up"), Some("zz")}

\* quit-keywords: none; a word; a word and a spelling of it that no trimmed
\* line can equal; the empty string.
QuitKeywordSets == { {}, {<<"k">>}, {<<"k">>, <<" ", "k">>}, {<<>>} }

\* Lines of standard input: the quit word, in another case, with blanks around
\* it, inside a longer word; an empty line; a last line without a newline; a
\* line with the Kelvin sign.
Lines ==
    { <<"k", "\n">>, <<"K", "\n">>, <<" ", "k", " ", "\n">>, <<"a", "k", "\n">>,
      <<"\n">>, <<"A">>, <<KelvinSign, "a", "\n">> }

Stdins == UNION {[1..n -> Lines] : n \in 0..MaxLines}

TextArgs == { <<" ", "A", "k">>, <<KelvinSign, "a">> }

Out(msg, name, t) == [msg |-> msg, name |-> name, text |-> t]

MainInit ==
    /\ language = NoLanguage
    /\ input = <<>>
    /\ text = <<>>
    /\ idx = 0
    /\ matches = <<>>
    /\ k = 0
    /\ pcT = "idle"
    /\ prov = <<>>
    /\ src = <<>>
    /\ seg = <<>>
    /\ rep = <<>>
    /\ ctx = <<>>
    /\ pc = "main"
    /\ exit = "running"
    /\ cb = FALSE
    /\ selected = NoName
    /\ lang = NoLanguage
    /\ repl_input = <<>>
    /\ translated = <<>>
    /\ stdout = {}
    /\ copied = {}
    /\ eof = FALSE
    /\ fed = {}
    /\ clipboardState \in {"ok", "unavailable", "set_fails"}
    /\ \E l \in LanguageArgs, nc \in BOOLEAN :
          \/ \E t \in TextArgs :
                 /\ args = [text |-> Some(t), repl |-> FALSE, language |-> l, no_clipboard |-> nc]
                 /\ stdin = <<>>
          \/ /\ args = [text |-> None, repl |-> TRUE, language |-> l, no_clipboard |-> nc]
             /\ stdin \in Stdins
          \/ /\ args = [text |-> None, repl |-> FALSE, language |-> l, no_clipboard |-> nc]
             /\ stdin = <<>>
    /\ \/ /\ fileState \in {"NotFound", "Unreadable", "Unparsable"}
          /\ config = NoConfig
       \/ /\ fileState = "Ok"
          /\ \E d \in DefaultLanguages, q \in QuitKeywordSets :
                 config = [default_language |-> d, quit_keywords |-> q,
                           languages |-> Languages]

Exit(status) == pc' = "exit" /\ exit' = status

\* main.rs 57-66
MainReadConfig ==
    /\ pc = "main"
    /\ IF fileState = "NotFound"
       THEN stdout' = stdout \cup {Out("Could not find", "", <<>>)} /\ Exit("ok")
       ELSE IF fileState = "Unreadable"
       THEN stdout' = stdout \cup {Out("Could not read config file", "", <<>>)} /\ Exit("ok")
       ELSE pc' = "parse" /\ UNCHANGED <<stdout, exit>>
    /\ UNCHANGED <<args, fileState, config, clipboardState, stdin, cb, selected, lang,
                   repl_input, translated, copied, eof, fed>>
    /\ UNCHANGED engineVars

\* main.rs 68-71
MainParseConfig ==
    /\ pc = "parse"
    /\ IF fileState = "Unparsable"
       THEN stdout' = stdout \cup {Out("Could not parse config file", "", <<>>)} /\ Exit("ok")
       ELSE pc' = "clipboard" /\ UNCHANGED <<stdout, exit>>
    /\ UNCHANGED <<args, fileState, config, clipboardState, stdin, cb, selected, lang,
                   repl_input, translated, copied, eof, fed>>
    /\ UNCHANGED engineVars

\* main.rs 73-77: Clipboard::new()? returns main's Err when the backend fails.
MainOpenClipboard ==
    /\ pc = "clipboard"
    /\ IF args.no_clipboard THEN cb' = FALSE /\ pc' = "select" /\ UNCHANGED exit
       ELSE IF clipboardState = "unavailable" THEN cb' = FALSE /\ Exit("err")
       ELSE cb' = TRUE /\ pc' = "select" /\ UNCHANGED exit
    /\ UNCHANGED <<args, fileState, config, clipboardState, stdin, selected, lang,
                   repl_input, translated, stdout, copied, eof, fed>>
    /\ UNCHANGED engineVars

\* main.rs 79-81: args.language.or_else(|| default_language)
select_language(a, c) == IF a.language.some THEN a.language ELSE c.default_language

\* main.rs 79-85
MainSelectLanguage ==
    /\ pc = "select"
    /\ selected' = select_language(args, config)
    /\ IF selected'.some THEN pc' = "find" /\ UNCHANGED <<stdout, exit>>
       ELSE stdout' = stdout \cup {Out("No language specified", "", <<>>)} /\ Exit("ok")
    /\ UNCHANGED <<args, fileState, config, clipboardState, stdin, cb, lang,
                   repl_input, translated, copied, eof, fed>>
    /\ UNCHANGED engineVars

\* main.rs 87: config.languages.iter().find(|l| l.name == *language)
find_language(c, name) ==
    LET hits == {i \in 1..Len(c.languages) : c.languages[i].name = name}
    IN  IF hits = {} THEN [some |-> FALSE, v |-> NoLanguage]
        ELSE [some |-> TRUE,
              v |-> c.languages[CHOOSE i \in hits : \A j \in hits : i <= j]]

\* main.rs 87-90
MainFindLanguage ==
    /\ pc = "find"
    /\ LET found == find_language(config, selected.v)
       IN  IF found.some
           THEN lang' = found.v /\ pc' = "dispatch" /\ UNCHANGED <<stdout, exit>>
           ELSE /\ stdout' = stdout \cup {Out("Language not found", selected.v, <<>>)}
                /\ Exit("ok")
                /\ UNCHANGED lang
    /\ UNCHANGED <<args, fileState, config, clipboardState, stdin, cb, selected,
                   repl_input, translated, copied, eof, fed>>
    /\ UNCHANGED engineVars

\* main.rs 92-101: --text; translate, print, copy, return.
MainOneShot ==
    /\ pc = "dispatch"
    /\ args.text.some
    /\ LET r == translate(args.text.v, lang)
       IN  IF ~r.ok
           THEN Exit("panic") /\ fed' = fed \cup {args.text.v}
                /\ UNCHANGED <<translated, stdout, copied>>
           ELSE /\ translated' = r.text
                /\ fed' = fed \cup {args.text.v}
                /\ stdout' = stdout \cup {Out("translated", "", r.text)}
                /\ IF ~cb THEN Exit("ok") /\ UNCHANGED copied
                   ELSE IF clipboardState = "set_fails" THEN Exit("err") /\ UNCHANGED copied
                   ELSE Exit("ok") /\ copied' = copied \cup {r.text}
    /\ UNCHANGED <<args, fileState, config, clipboardState, stdin, cb, selected, lang,
                   repl_input, eof>>
    /\ UNCHANGED engineVars

\* main.rs 102-112 and repl's header, main.rs 124-132.
MainRepl ==
    /\ pc = "dispatch"
    /\ ~args.text.some
    /\ args.repl
    /\ stdout' = stdout \cup {Out("Welcome", lang.name, <<>>)}
    /\ pc' = "repl_read"
    /\ UNCHANGED <<args, fileState, config, clipboardState, stdin, exit, cb, selected, lang,
                   repl_input, translated, copied, eof, fed>>
    /\ UNCHANGED engineVars

\* main.rs 116: neither --text nor --repl.
MainNothing ==
    /\ pc = "dispatch"
    /\ ~args.text.some
    /\ ~args.repl
    /\ Exit("ok")
    /\ UNCHANGED <<args, fileState, config, clipboardState, stdin, cb, selected, lang,
                   repl_input, translated, stdout, copied, eof, fed>>
    /\ UNCHANGED engineVars

\* main.rs 135-138: prompt, then read_line into a fresh String; at the end of
\* input read_line returns Ok(0) and leaves the String empty.
ReplRead ==
    /\ pc = "repl_read"
    /\ stdout' = stdout \cup {Out(">>> ", "", <<>>)}
    /\ IF stdin = <<>>
       THEN repl_input' = <<>> /\ eof' = TRUE /\ UNCHANGED stdin
       ELSE repl_input' = Head(stdin) /\ stdin' = Tail(stdin) /\ UNCHANGED eof
    /\ pc' = "repl_check"
    /\ UNCHANGED <<args, fileState, config, clipboardState, exit, cb, selected, lang,
                   translated, copied, fed>>
    /\ UNCHANGED engineVars

\* A slip: the line is looked up as read, with its newline.
is_quit_untrimmed(quit_words, line) == line \in quit_words

\* main.rs 140: quit_words.contains(input.trim())
is_quit(quit_words, line) == trim(line) \in quit_words

\* main.rs 140-142
ReplQuitCheck ==
    /\ pc = "repl_check"
    /\ IF is_quit(config.quit_keywords, repl_input)
       THEN Exit("ok")
       ELSE pc' = "repl_translate" /\ UNCHANGED exit
    /\ UNCHANGED <<args, fileState, config, clipboardState, stdin, cb, selected, lang,
                   repl_input, translated, stdout, copied, eof, fed>>
    /\ UNCHANGED engineVars

\* main.rs 144-145
ReplTranslate ==
    /\ pc = "repl_translate"
    /\ fed' = fed \cup {repl_input}
    /\ LET r == translate(repl_input, lang)
       IN  IF ~r.ok THEN Exit("panic") /\ UNCHANGED <<translated, stdout>>
           ELSE /\ translated' = r.text
                /\ stdout' = stdout \cup {Out("translated", "", r.text)}
                /\ pc' = "repl_copy"
                /\ UNCHANGED exit
    /\ UNCHANGED <<args, fileState, config, clipboardState, stdin, cb, selected, lang,
                   repl_input, copied, eof>>
    /\ UNCHANGED engineVars

\* main.rs 147-149, and back to the head of the loop.
ReplCopy ==
    /\ pc = "repl_copy"
    /\ IF ~cb THEN pc' = "repl_read" /\ UNCHANGED <<copied, exit>>
       ELSE IF clipboardState = "set_fails" THEN Exit("err") /\ UNCHANGED copied
       ELSE copied' = copied \cup {translated} /\ pc' = "repl_read" /\ UNCHANGED exit
    /\ UNCHANGED <<args, fileState, config, clipboardState, stdin, cb, selected, lang,
                   repl_input, translated, stdout, eof, fed>>
    /\ UNCHANGED engineVars

MainNext ==
    \/ MainReadConfig
    \/ MainParseConfig
    \/ MainOpenClipboard
    \/ MainSelectLanguage
    \/ MainFindLanguage
    \/ MainOneShot
    \/ MainRepl
    \/ MainNothing
    \/ ReplRead
    \/ ReplQuitCheck
    \/ ReplTranslate
    \/ ReplCopy

\* The process is sequential and keeps running until it exits: a step that
\* can be taken is taken.
MainSpec == MainInit /\ [][MainNext]_vars /\ WF_vars(MainNext)

(***************************************************************************)
(* C5, C6, C7.  The driver.                                                *)
(***************************************************************************)
InRepl == Out("Welcome", lang.name, <<>>) \in stdout

\* C5: once a read of standard input has returned no data, the interactive
\* loop eventually exits.
C5_EndOfInputEndsLoop == eof ~> (pc = "exit")

\* C6: in the interactive loop, the loop ends successfully only on a line whose
\* trimmed text is a quit keyword; a line that gets past the check is not one,
\* is given to translate, and its translation is printed before the copy; no
\* line given to translate, and so none printed or copied, is a quit line; the
\* loop is left otherwise only by a failed clipboard write or a panic of
\* translate.
C6_QuitIsExactTrimmedMatch ==
    InRepl =>
        /\ (pc = "exit" /\ exit = "ok") => trim(repl_input) \in config.quit_keywords
        /\ pc \in {"repl_translate", "repl_copy"} =>
               trim(repl_input) \notin config.quit_keywords
        /\ pc = "repl_copy" =>
               /\ repl_input \in fed
               /\ Out("translated", "", translate(repl_input, lang).text) \in stdout
        /\ \A l \in fed : trim(l) \notin config.quit_keywords
        /\ copied # {} => fed # {}
        /\ (pc = "exit" /\ exit = "err") => (cb /\ clipboardState = "set_fails")
        /\ (pc = "exit" /\ exit = "panic") => ~translate(repl_input, lang).ok

\* A loop that ended on a line equal to a quit keyword only once trimmed, after
\* translating a line that holds the keyword inside a longer word and one that
\* differs from it in case only.
C6_Witness ==
    /\ InRepl
    /\ pc = "exit"
    /\ exit = "ok"
    /\ repl_input # trim(repl_input) \o <<"\n">>
    /\ trim(repl_input) # <<>>
    /\ \E l \in fed :
           /\ trim(l) # trim(repl_input)
           /\ \/ Occurrences(trim(l), trim(repl_input)) # {}
              \/ to_lowercase(trim(l)) = to_lowercase(trim(repl_input))

\* Whether the command line and the configuration resolve to a profile.
Resolves ==
    LET s == select_language(args, config)
    IN  s.some /\ \E i \in 1..Len(config.languages) : config.languages[i].name = s.v

\* C7: a process that read and parsed its configuration and could not resolve a
\* language has, when it ends, printed the diagnostic (with the requested
\* name, for an unknown one), translated and copied nothing, and exits with
\* status 0.
C7_ResolutionFailureIsSoft ==
    (pc = "exit" /\ fileState = "Ok" /\ ~Resolves) =>
        /\ exit = "ok"
        /\ LET s == select_language(args, config)
           IN  IF s.some THEN Out("Language not found", s.v, <<>>) \in stdout
               ELSE Out("No language specified", "", <<>>) \in stdout
        /\ fed = {}
        /\ copied = {}

====
